---- MODULE Spec2Model ----
(***************************************************************************)
(* Magnetic Whiteboard Team Builder: the MagneticWhiteboard component      *)
(* (src/unnamed/part_000) as a state machine.  The state is the React      *)
(* state of the component (board, pasteText, selectedColor), the local     *)
(* store, the queue of passive effects, and the asynchronous work in       *)
(* flight (drags, file reads, print timers).  One action per handler,      *)
(* effect or callback.                                                     *)
(*                                                                         *)
(* Numbers are integers: pointer coordinates, rectangles and the label     *)
(* jitter are drawn from integer sets, so fractional pixels are outside    *)
(* the model.                                                              *)
(***************************************************************************)
EXTENDS Integers, Sequences, FiniteSets, TLC

VARIABLES
    board,          \* useState(DEFAULT_BOARD): the in-memory Board value
    pasteText,      \* useState(""): the textarea, a sequence of characters
    selectedColor,  \* useState(1): the selected swatch
    store,          \* localStorage["mag-whiteboard-v1"]: a text, or NoText
    storeOK,        \* whether localStorage can be used in this session
    effects,        \* passive effects scheduled and not yet run, in order
    dirty,          \* a setBoard made inside an effect awaits its render
    crashed,        \* a render threw: React has unmounted the component
    dragging,       \* ids of the items whose drag gesture is in progress
    reads,          \* file texts whose file.text() has not resolved yet
    timers,         \* setTimeout(() => window.print(), 50) not yet fired
    download,       \* the text of the last whiteboard-teams.json saved
    exported,       \* the Board value that download was written from
    ops,            \* number of events handled so far
    last            \* the latest event: its name, inputs and visible output

vars == <<board, pasteText, selectedColor, store, storeOK, effects, dirty,
          crashed, dragging, reads, timers, download, exported, ops, last>>

---------------------------------------------------------------------------
(* Bounds of the model *)

\* events (user input, timer and file-read callbacks) per behaviour
MaxOps == 4

\* events per behaviour of SpecCore
MaxCoreOps == 3

\* uid(): the strings Math.random().toString(36).slice(2, 9) may return
Ids == {"a", "b"}

---------------------------------------------------------------------------
(* JavaScript values.  A value carries a tag t; the payload field is named *)
(* after the tag, so that a field always holds values of one kind.         *)

Undefined == [t |-> "undefined"]
JNull == [t |-> "null"]
JNum(n) == [t |-> "num", n |-> n]
JArr(a) == [t |-> "arr", a |-> a]
\* an object whose properties are all booleans: a function from the
\* property names it has to their values (the settings record)
JObj(o) == [t |-> "obj", o |-> o]
\* an object read through its items and settings properties (a Board)
JBoard(items, settings) == [t |-> "board", items |-> items, settings |-> settings]

\* ToBoolean(v), as used by `&&`, `!` and `if`
Truthy(v) ==
    CASE v.t = "undefined" -> FALSE
      [] v.t = "null" -> FALSE
      [] v.t = "num" -> v.n # 0
      [] v.t = "arr" -> TRUE
      [] v.t = "obj" -> TRUE
      [] v.t = "board" -> TRUE

\* json?.items, json?.settings: undefined on null and on a missing property
OptItems(v) == IF v.t = "board" THEN v.items ELSE Undefined
OptSettings(v) == IF v.t = "board" THEN v.settings ELSE Undefined

\* s[key] read as a condition: a missing property reads undefined, falsy
Flag(s, key) == s.t = "obj" /\ key \in DOMAIN s.o /\ s.o[key]

COLORS == <<"Slate", "Blue", "Green", "Yellow", "Orange", "Red", "Purple", "Pink">>

\* COLORS[colorIdx] with no fallback: the name of an entry that is not there
MagnetColorNoFallback(colorIdx) ==
    IF colorIdx \in 0..(Len(COLORS) - 1) THEN COLORS[colorIdx + 1] ELSE "undefined"

\* line 339: COLORS[colorIdx] ?? COLORS[0]; an index with no entry reads
\* undefined, which ?? replaces
MagnetColor(colorIdx) ==
    IF colorIdx \in 0..(Len(COLORS) - 1) THEN COLORS[colorIdx + 1] ELSE COLORS[1]

gridSize == 24

DEFAULT_BOARD ==
    JBoard(JArr(<<>>), JObj([grid |-> TRUE, snap |-> TRUE, locked |-> FALSE]))

---------------------------------------------------------------------------
(* Items and the Board Model's pure transitions *)

Item(id, type, text, x, y, color) ==
    [id |-> id, type |-> type, text |-> text, x |-> x, y |-> y, color |-> color]

HasId(b, id) == \E i \in 1..Len(b.items.a) : b.items.a[i].id = id

\* { ...b, items: items }
WithItems(b, items) == JBoard(JArr(items), b.settings)

\* board.settings.grid (lines 227-249) throws on a board or settings that is
\* null or undefined; board.items.map (line 310) throws unless items is an array
Renderable(b) ==
    /\ b.t = "board"
    /\ b.settings.t \notin {"undefined", "null"}
    /\ b.items.t = "arr"

\* { ...b.settings }: the own properties of an object; a number has none
Spread(s) == IF s.t = "obj" THEN s.o ELSE <<>>

\* (b) => ({ ...b, settings: { ...b.settings, [key]: !b.settings[key] } })
toggleBoard(b, key) ==
    LET o == Spread(b.settings)
    IN  JBoard(b.items,
               JObj([k \in (DOMAIN o) \cup {key} |->
                        IF k = key THEN ~Flag(b.settings, key) ELSE o[k]]))

\* items: b.items.map((x) => (x.id === it.id ? { ...x, text } : x))
changeText(b, id, text) ==
    WithItems(b, [i \in 1..Len(b.items.a) |->
                    IF b.items.a[i].id = id
                    THEN [b.items.a[i] EXCEPT !.text = text]
                    ELSE b.items.a[i]])

\* a delete by position: items.splice(items.findIndex(...), 1), which
\* removes the last item when no item has the id (index -1)
deleteItemSplice(b, id) ==
    LET at == {i \in 1..Len(b.items.a) : b.items.a[i].id = id}
        k == IF at = {} THEN Len(b.items.a)
             ELSE CHOOSE i \in at : \A j \in at : i <= j
    IN  WithItems(b, SubSeq(b.items.a, 1, k - 1) \o
                     SubSeq(b.items.a, k + 1, Len(b.items.a)))

\* items: b.items.filter((x) => x.id !== it.id)
deleteItem(b, id) ==
    WithItems(b, SelectSeq(b.items.a, LAMBDA x : x.id # id))

---------------------------------------------------------------------------
(* parseNames and the bulk layout *)

Delims == {"\n", ",", ";"}
Spaces == {" ", "\t", "\n"}

RECURSIVE Join(_)
\* a sequence of characters as a string
Join(cs) == IF cs = <<>> THEN "" ELSE Head(cs) \o Join(Tail(cs))

RECURSIVE TrimStart(_)
TrimStart(cs) ==
    IF cs # <<>> /\ Head(cs) \in Spaces THEN TrimStart(Tail(cs)) ELSE cs

RECURSIVE TrimEnd(_)
TrimEnd(cs) ==
    IF cs # <<>> /\ cs[Len(cs)] \in Spaces
    THEN TrimEnd(SubSeq(cs, 1, Len(cs) - 1))
    ELSE cs

\* String.prototype.trim
Trim(cs) == TrimEnd(TrimStart(cs))

RECURSIVE SkipDelims(_)
SkipDelims(cs) ==
    IF cs # <<>> /\ Head(cs) \in Delims THEN SkipDelims(Tail(cs)) ELSE cs

RECURSIVE SplitFrom(_, _, _)
\* text.split(/[\n,;]+/): a run of delimiters ends the current piece
SplitFrom(cs, cur, out) ==
    IF cs = <<>> THEN Append(out, cur)
    ELSE IF Head(cs) \in Delims
         THEN SplitFrom(SkipDelims(cs), <<>>, Append(out, cur))
         ELSE SplitFrom(Tail(cs), Append(cur, Head(cs)), out)

\* text.split(/[\n,;]+/).map((s) => s.trim()).filter(Boolean)
parseNames(text) ==
    LET pieces == SplitFrom(text, <<>>, <<>>)
        trimmed == [i \in 1..Len(pieces) |-> Trim(pieces[i])]
        kept == SelectSeq(trimmed, LAMBDA p : p # <<>>)
    IN  [i \in 1..Len(kept) |-> Join(kept[i])]

\* a layout five across: i % 5 and Math.floor(i / 5)
newMagnetsFiveAcross(names, ids, color) ==
    [k \in 1..Len(names) |->
        Item(ids[k], "magnet", names[k],
             24 + ((k - 1) % 5) * 140, 24 + ((k - 1) \div 5) * 60, color)]

\* names.map((n, i) => ({ id: uid(), type: "magnet", text: n,
\*   x: baseX + (i % 4) * 140, y: baseY + Math.floor(i / 4) * 60, color }))
\* ids[i + 1] is the result of the i-th call of uid()
newMagnets(names, ids, color) ==
    [k \in 1..Len(names) |->
        Item(ids[k], "magnet", names[k],
             24 + ((k - 1) % 4) * 140, 24 + ((k - 1) \div 4) * 60, color)]

---------------------------------------------------------------------------
(* The Placement Engine: onDragEnd's position for one item *)

Min(a, b) == IF a < b THEN a ELSE b
Max(a, b) == IF a > b THEN a ELSE b

\* Math.round(v / gridSize) * gridSize on an integer v: halves round up
Snap(v) == ((2 * v + gridSize) \div (2 * gridSize)) * gridSize

\* nx, ny of lines 139-147 for item it, board-local pointer (x, y)
placeX(it, x, rect, snap) ==
    LET nx == x - (IF it.type = "label" THEN 0 ELSE 60)
        sx == IF snap THEN Snap(nx) ELSE nx
    IN  Max(0, Min(sx, rect.width - 120))

placeY(it, y, rect, snap) ==
    LET ny == y - 20
        sy == IF snap THEN Snap(ny) ELSE ny
    IN  Max(0, Min(sy, rect.height - 40))

\* dragBoard without the test of the id: every item takes the position
dragBoardAll(b, id, point, rect) ==
    LET x == point.x - rect.left
        y == point.y - rect.top
        snap == Flag(b.settings, "snap")
    IN  WithItems(b, [i \in 1..Len(b.items.a) |->
            LET it == b.items.a[i]
            IN  [it EXCEPT !.x = placeX(it, x, rect, snap),
                           !.y = placeY(it, y, rect, snap)]])

\* the updater of lines 135-150
dragBoard(b, id, point, rect) ==
    LET x == point.x - rect.left
        y == point.y - rect.top
        snap == Flag(b.settings, "snap")
    IN  WithItems(b, [i \in 1..Len(b.items.a) |->
            LET it == b.items.a[i]
            IN  IF it.id # id THEN it
                ELSE [it EXCEPT !.x = placeX(it, x, rect, snap),
                                !.y = placeY(it, y, rect, snap)]])

---------------------------------------------------------------------------
(* The Persistence Codec.  A JSON document is a tree whose objects are      *)
(* ordered lists of members <<key, value>>; a text is a document with its   *)
(* indentation, or a text that is not JSON.                                 *)

DUndefined == [t |-> "undefined"]
DNull == [t |-> "null"]
DNum(n) == [t |-> "num", n |-> n]
DStr(s) == [t |-> "str", s |-> s]
DBool(b) == [t |-> "bool", b |-> b]
DArr(a) == [t |-> "arr", a |-> a]
DObj(m) == [t |-> "obj", m |-> m]
Member(k, v) == [k |-> k, v |-> v]

\* chars: "json" (a JSON text), "garbage" (not JSON), "empty" (the empty
\* string), "none" (no text: getItem's null, no file saved)
JsonText(indent, doc) == [chars |-> "json", indent |-> indent, doc |-> doc]
NoText == [chars |-> "none", indent |-> 0, doc |-> DNull]
EmptyText == [chars |-> "empty", indent |-> 0, doc |-> DNull]
GarbageText == [chars |-> "garbage", indent |-> 0, doc |-> DNull]

\* members with an undefined value are not written
Defined(m) == SelectSeq(m, LAMBDA x : x.v.t # "undefined")

itemDoc(it) ==
    DObj(<<Member("id", DStr(it.id)), Member("type", DStr(it.type)),
           Member("text", DStr(it.text)), Member("x", DNum(it.x)),
           Member("y", DNum(it.y)), Member("color", DNum(it.color))>>)

itemsDoc(v) ==
    CASE v.t = "undefined" -> DUndefined
      [] v.t = "null" -> DNull
      [] v.t = "num" -> DNum(v.n)
      [] v.t = "arr" -> DArr([i \in 1..Len(v.a) |-> itemDoc(v.a[i])])

settingsDoc(v) ==
    CASE v.t = "undefined" -> DUndefined
      [] v.t = "null" -> DNull
      [] v.t = "num" -> DNum(v.n)
      [] v.t = "obj" ->
            LET keys == SelectSeq(<<"grid", "snap", "locked">>,
                                  LAMBDA k : k \in DOMAIN v.o)
            IN  DObj([i \in 1..Len(keys) |-> Member(keys[i], DBool(v.o[keys[i]]))])

boardDoc(v) ==
    CASE v.t = "null" -> DNull
      [] v.t = "board" ->
            DObj(Defined(<<Member("items", itemsDoc(v.items)),
                           Member("settings", settingsDoc(v.settings))>>))

\* JSON.stringify(value, null, indent)
stringify(v, indent) == JsonText(indent, boardDoc(v))

\* the value of member key of an object document: the last one, or undefined
Lookup(m, key) ==
    LET at == {i \in 1..Len(m) : m[i].k = key}
    IN  IF at = {} THEN DUndefined
        ELSE m[CHOOSE i \in at : \A j \in at : j <= i].v

itemValue(d) ==
    Item(Lookup(d.m, "id").s, Lookup(d.m, "type").s, Lookup(d.m, "text").s,
         Lookup(d.m, "x").n, Lookup(d.m, "y").n, Lookup(d.m, "color").n)

itemsValue(d) ==
    CASE d.t = "undefined" -> Undefined
      [] d.t = "null" -> JNull
      [] d.t = "num" -> JNum(d.n)
      [] d.t = "arr" -> JArr([i \in 1..Len(d.a) |-> itemValue(d.a[i])])

settingsValue(d) ==
    CASE d.t = "undefined" -> Undefined
      [] d.t = "null" -> JNull
      [] d.t = "num" -> JNum(d.n)
      [] d.t = "obj" ->
            JObj([k \in {d.m[i].k : i \in 1..Len(d.m)} |-> Lookup(d.m, k).b])

\* an export that writes the items and leaves the settings out
exportTextItemsOnly(b) ==
    JsonText(2, DObj(Defined(<<Member("items", itemsDoc(b.items))>>)))

\* line 154: JSON.stringify(board, null, 2)
exportText(b) == stringify(b, 2)

\* whether JSON.parse(text) returns rather than throws
Parseable(text) == text.chars = "json"

\* JSON.parse(text), for a text that parses
parse(text) ==
    CASE text.doc.t = "null" -> JNull
      [] text.doc.t = "obj" ->
            JBoard(itemsValue(Lookup(text.doc.m, "items")),
                   settingsValue(Lookup(text.doc.m, "settings")))

---------------------------------------------------------------------------
(* Inputs of the events *)

\* what the user types or pastes into the textarea
PasteTexts ==
    { <<" ", " ">>,
      <<",", ";">>,
      <<"A", "l", ",", ";", " ", "B", "o", "\n">> }

\* the swatch buttons clicked
Swatches == {6}

\* what the user types into an item
EditTexts == {"Zed"}

\* info.point of a drag release, in viewport coordinates
Points ==
    { [x |-> -500, y |-> -500], [x |-> 202, y |-> 212], [x |-> 5000, y |-> 5000] }

\* boardRef.current.getBoundingClientRect()
Rects ==
    { [left |-> 10, top |-> 20, width |-> 1000, height |-> 562],
      [left |-> 0, top |-> 0, width |-> 100, height |-> 30] }

\* Math.random() * 100 and Math.random() * 60, rounded down
Jitters == { [x |-> 99, y |-> 0] }

\* a board saved by an earlier session
StoredBoard ==
    JBoard(JArr(<<Item("a", "label", "Team A", 48, 48, 3),
                  Item("b", "magnet", "Bo", 164, 24, 1)>>),
           JObj([grid |-> TRUE, snap |-> TRUE, locked |-> FALSE]))

\* a board file written by hand or by another program: its two items share
\* an id, and the magnet's color is no index of COLORS
FileBoard ==
    JBoard(JArr(<<Item("a", "label", "Team B", 24, 24, 3),
                  Item("a", "magnet", "Al", 300, 200, 9)>>),
           JObj([grid |-> FALSE, snap |-> FALSE, locked |-> FALSE]))

\* the text "null" and the text "{}"
NullText == JsonText(0, DNull)
EmptyObjectText == JsonText(0, DObj(<<>>))

\* what the store may hold under mag-whiteboard-v1 when the process starts
StoredTexts ==
    { NoText, EmptyText, GarbageText, NullText, EmptyObjectText,
      stringify(StoredBoard, 0) }

\* the files the user may pick in the import dialog
Files ==
    { GarbageText,
      EmptyObjectText,
      JsonText(2, DObj(<<Member("items", DArr(<<>>))>>)),
      JsonText(2, DObj(<<Member("settings", DObj(<<>>))>>)),
      JsonText(2, DObj(<<Member("items", DNum(1)),
                         Member("settings", DObj(<<>>))>>)),
      JsonText(2, DObj(<<Member("items", DArr(<<>>)),
                         Member("settings", DObj(<<>>))>>)),
      stringify(FileBoard, 2) }

---------------------------------------------------------------------------
(* Events *)

NoPoint == [x |-> 0, y |-> 0]
NoRect == [left |-> 0, top |-> 0, width |-> 0, height |-> 0]

\* an event record: op names the handler; the other fields are its inputs
\* (id, ids, jitter, point, rect, text, edit, key) and what it showed (alert,
\* locked).  The first event, "mount", carries the text the store held at
\* process start.
Ev(op) ==
    [op |-> op, id |-> "", ids |-> <<>>, jitter |-> NoPoint, key |-> "",
     point |-> NoPoint, rect |-> NoRect, text |-> NoText, edit |-> "",
     alert |-> "", locked |-> FALSE]

Handled(e) == ops < MaxOps /\ ops' = ops + 1 /\ last' = e

LoadJob == [e |-> "load", board |-> DEFAULT_BOARD]

\* an auto-save effect with no dependency on board: it keeps the first board
SaveJobStale(b) == [e |-> "save", board |-> DEFAULT_BOARD]

\* the auto-save effect closes over the board of the render that scheduled it
SaveJob(b) == [e |-> "save", board |-> b]

\* the effects declared the other way round: auto-save before load
MountEffectsSaveFirst == <<SaveJob(DEFAULT_BOARD), LoadJob>>

\* the effects of the first render, in the order of their declaration
\* (load, lines 72-77, then auto-save, lines 80-84)
MountEffects == <<LoadJob, SaveJob(DEFAULT_BOARD)>>

\* React commits a new board: the component renders it, and the auto-save
\* effect of that render is scheduled ([board] changed); a render that
\* throws unmounts the component and schedules nothing
Commit(nb) ==
    /\ board' = nb
    /\ dirty' = FALSE
    /\ IF Renderable(nb)
       THEN effects' = <<SaveJob(nb)>> /\ crashed' = FALSE
       ELSE effects' = <<>> /\ crashed' = TRUE

\* no effect is pending and the component is mounted: handlers can run
Ready == effects = <<>> /\ ~dirty /\ ~crashed

Locked(b) == b.t = "board" /\ Flag(b.settings, "locked")

Init ==
    /\ board = DEFAULT_BOARD
    /\ pasteText = <<>>
    /\ selectedColor = 1
    /\ storeOK \in BOOLEAN
    /\ store \in (IF storeOK THEN StoredTexts ELSE {NoText})
    /\ effects = MountEffects
    /\ dirty = FALSE
    /\ crashed = FALSE
    /\ dragging = {}
    /\ reads = <<>>
    /\ timers = 0
    /\ download = NoText
    /\ exported = DEFAULT_BOARD
    /\ ops = 0
    /\ last = [Ev("mount") EXCEPT !.text = store]

\* lines 72-77: try { saved = getItem(key); if (saved) setBoard(JSON.parse(saved)) } catch {}
LoadEffect ==
    /\ effects # <<>> /\ Head(effects).e = "load"
    /\ effects' = Tail(effects)
    /\ IF storeOK /\ store.chars \notin {"none", "empty"} /\ Parseable(store)
       THEN board' = parse(store) /\ dirty' = TRUE
       ELSE UNCHANGED <<board, dirty>>
    /\ UNCHANGED <<pasteText, selectedColor, store, storeOK, crashed, dragging,
                   reads, timers, download, exported, ops, last>>

\* the auto-save effect without its try / catch: the exception of setItem
\* leaves the effect and React unmounts the component
AutoSaveNoCatch ==
    /\ effects # <<>> /\ Head(effects).e = "save"
    /\ effects' = Tail(effects)
    /\ store' = IF storeOK THEN stringify(Head(effects).board, 0) ELSE store
    /\ crashed' = (crashed \/ ~storeOK)
    /\ UNCHANGED <<board, pasteText, selectedColor, storeOK, dirty,
                   dragging, reads, timers, download, exported, ops, last>>

\* lines 80-84: try { setItem(key, JSON.stringify(board)) } catch {}
AutoSave ==
    /\ effects # <<>> /\ Head(effects).e = "save"
    /\ effects' = Tail(effects)
    /\ store' = IF storeOK THEN stringify(Head(effects).board, 0) ELSE store
    /\ UNCHANGED <<board, pasteText, selectedColor, storeOK, dirty, crashed,
                   dragging, reads, timers, download, exported, ops, last>>

\* the render of a setBoard made by the load effect, after the effects of
\* the first render have run
Render ==
    /\ effects = <<>> /\ dirty
    /\ Commit(board)
    /\ UNCHANGED <<pasteText, selectedColor, store, storeOK, dragging, reads,
                   timers, download, exported, ops, last>>

\* line 257: onChange={(e) => setPasteText(e.target.value)}
setPasteText(text) ==
    /\ Ready
    /\ pasteText' = text
    /\ Handled(Ev("setPasteText"))
    /\ UNCHANGED <<board, selectedColor, store, storeOK, effects, dirty, crashed,
                   dragging, reads, timers, download, exported>>

\* line 268: onClick={() => setSelectedColor(i)}
setSelectedColor(i) ==
    /\ Ready
    /\ selectedColor' = i
    /\ Handled(Ev("setSelectedColor"))
    /\ UNCHANGED <<board, pasteText, store, storeOK, effects, dirty, crashed,
                   dragging, reads, timers, download, exported>>

\* lines 88-104; ids are the results of the calls of uid()
addMagnets(ids) ==
    /\ Ready
    /\ Handled([Ev("addMagnets") EXCEPT !.ids = ids])
    /\ IF Trim(pasteText) = <<>>
       THEN UNCHANGED <<board, pasteText, effects, dirty, crashed>>
       ELSE /\ Commit(WithItems(board,
                  board.items.a \o newMagnets(parseNames(pasteText), ids, selectedColor)))
            /\ pasteText' = <<>>
    /\ UNCHANGED <<selectedColor, store, storeOK, dragging, reads, timers,
                   download, exported>>

\* lines 106-122; id is uid(), jitter the two Math.random() terms
addLabel(id, jitter) ==
    /\ Ready
    /\ Handled([Ev("addLabel") EXCEPT !.id = id, !.jitter = jitter])
    /\ Commit(WithItems(board,
           Append(board.items.a,
                  Item(id, "label", "Team A", 24 + jitter.x, 24 + jitter.y, 3))))
    /\ UNCHANGED <<pasteText, selectedColor, store, storeOK, dragging, reads,
                   timers, download, exported>>

\* a clear that empties the items and keeps the settings
clearBoardItemsOnly(confirmed) ==
    /\ Ready
    /\ Handled([Ev("clearBoard") EXCEPT !.alert = IF confirmed THEN "ok" ELSE "cancel"])
    /\ IF confirmed
       THEN Commit(WithItems(board, <<>>))
       ELSE UNCHANGED <<board, effects, dirty, crashed>>
    /\ UNCHANGED <<pasteText, selectedColor, store, storeOK, dragging, reads,
                   timers, download, exported>>

\* lines 124-127; confirmed is the answer to confirm(...)
clearBoard(confirmed) ==
    /\ Ready
    /\ Handled([Ev("clearBoard") EXCEPT !.alert = IF confirmed THEN "ok" ELSE "cancel"])
    /\ IF confirmed
       THEN Commit(DEFAULT_BOARD)
       ELSE UNCHANGED <<board, effects, dirty, crashed>>
    /\ UNCHANGED <<pasteText, selectedColor, store, storeOK, dragging, reads,
                   timers, download, exported>>

\* line 348: drag={!locked}: a drag gesture starts on a rendered item
dragStart(id) ==
    /\ Ready
    /\ HasId(board, id)
    /\ ~Locked(board)
    /\ id \notin dragging
    /\ dragging' = dragging \cup {id}
    /\ Handled([Ev("dragStart") EXCEPT !.id = id])
    /\ UNCHANGED <<board, pasteText, selectedColor, store, storeOK, effects,
                   dirty, crashed, reads, timers, download, exported>>

\* lines 129-151, called by line 350 when the gesture ends
onDragEnd(id, point, rect) ==
    /\ effects = <<>> /\ ~dirty
    /\ id \in dragging
    /\ dragging' = dragging \ {id}
    /\ Handled([Ev("onDragEnd") EXCEPT !.id = id, !.point = point, !.rect = rect])
    /\ IF crashed
       THEN UNCHANGED <<board, effects, dirty, crashed>>
       ELSE Commit(dragBoard(board, id, point, rect))
    /\ UNCHANGED <<pasteText, selectedColor, store, storeOK, reads, timers,
                   download, exported>>

\* lines 153-164
handleExport ==
    /\ Ready
    /\ download' = exportText(board)
    /\ exported' = board
    /\ Handled(Ev("handleExport"))
    /\ UNCHANGED <<board, pasteText, selectedColor, store, storeOK, effects,
                   dirty, crashed, dragging, reads, timers>>

\* lines 166-173: the user picks file and its read starts
handleImport(file) ==
    /\ Ready
    /\ reads' = Append(reads, file)
    /\ Handled(Ev("handleImport"))
    /\ UNCHANGED <<board, pasteText, selectedColor, store, storeOK, effects,
                   dirty, crashed, dragging, timers, download, exported>>

\* a check of the items key alone
acceptsItemsOnly(json) == Truthy(OptItems(json))

\* json?.items && json?.settings
accepts(json) == Truthy(OptItems(json)) /\ Truthy(OptSettings(json))

\* lines 173-180: the read of reads[i] resolves
importDone(i) ==
    LET text == reads[i]
        ok == Parseable(text) /\ accepts(parse(text))
    IN  /\ effects = <<>> /\ ~dirty
        /\ reads' = SubSeq(reads, 1, i - 1) \o SubSeq(reads, i + 1, Len(reads))
        /\ Handled([Ev("importDone") EXCEPT
                       !.text = text,
                       !.alert = IF ~Parseable(text) THEN "Could not parse file."
                                 ELSE IF ok THEN "" ELSE "Invalid file format."])
        /\ IF ok /\ ~crashed
           THEN Commit(parse(text))
           ELSE UNCHANGED <<board, effects, dirty, crashed>>
        /\ UNCHANGED <<pasteText, selectedColor, store, storeOK, dragging,
                       timers, download, exported>>

\* line 185
toggle(key) ==
    /\ Ready
    /\ Handled([Ev("toggle") EXCEPT !.key = key])
    /\ Commit(toggleBoard(board, key))
    /\ UNCHANGED <<pasteText, selectedColor, store, storeOK, dragging, reads,
                   timers, download, exported>>

\* lines 187-191
printBoard ==
    /\ Ready
    /\ Handled(Ev("printBoard"))
    /\ IF ~Locked(board)
       THEN Commit(toggleBoard(board, "locked"))
       ELSE UNCHANGED <<board, effects, dirty, crashed>>
    /\ timers' = timers + 1
    /\ UNCHANGED <<pasteText, selectedColor, store, storeOK, dragging, reads,
                   download, exported>>

\* line 190: the timer fires and window.print() runs
printTimer ==
    /\ effects = <<>> /\ ~dirty
    /\ timers > 0
    /\ timers' = timers - 1
    /\ Handled([Ev("print") EXCEPT !.locked = Locked(board)])
    /\ UNCHANGED <<board, pasteText, selectedColor, store, storeOK, effects,
                   dirty, crashed, dragging, reads, download, exported>>

\* lines 316-321
onChangeText(id, text) ==
    /\ Ready
    /\ HasId(board, id)
    /\ Handled([Ev("onChangeText") EXCEPT !.id = id, !.edit = text])
    /\ Commit(changeText(board, id, text))
    /\ UNCHANGED <<pasteText, selectedColor, store, storeOK, dragging, reads,
                   timers, download, exported>>

\* line 322, from the button of lines 374-380, rendered for non-labels
onDelete(id) ==
    /\ Ready
    /\ \E i \in 1..Len(board.items.a) :
          board.items.a[i].id = id /\ board.items.a[i].type # "label"
    /\ Handled([Ev("onDelete") EXCEPT !.id = id])
    /\ Commit(deleteItem(board, id))
    /\ UNCHANGED <<pasteText, selectedColor, store, storeOK, dragging, reads,
                   timers, download, exported>>

Next ==
    \/ LoadEffect
    \/ AutoSave
    \/ Render
    \/ \E text \in PasteTexts : setPasteText(text)
    \/ \E i \in Swatches : setSelectedColor(i)
    \/ \E ids \in [1..Len(parseNames(pasteText)) -> Ids] : addMagnets(ids)
    \/ \E id \in Ids, jitter \in Jitters : addLabel(id, jitter)
    \/ \E confirmed \in BOOLEAN : clearBoard(confirmed)
    \/ \E id \in Ids : dragStart(id)
    \/ \E id \in Ids, point \in Points, rect \in Rects : onDragEnd(id, point, rect)
    \/ handleExport
    \/ \E file \in Files \cup ({download} \ {NoText}) : handleImport(file)
    \/ \E i \in 1..Len(reads) : importDone(i)
    \/ \E key \in {"grid", "snap", "locked"} : toggle(key)
    \/ printBoard
    \/ printTimer
    \/ \E id \in Ids, text \in EditTexts : onChangeText(id, text)
    \/ \E id \in Ids : onDelete(id)

Spec == Init /\ [][Next]_vars

---------------------------------------------------------------------------
(* SpecCore: the handlers that build and edit the item list, run on a     *)
(* session that has started from a stored board, with every swatch, a     *)
(* range of pasted texts, and the updaters of lines 316-322 run for any   *)
(* id.                                                                    *)

\* texts pasted into the textarea: empty, blank, delimiters only, one name,
\* names with inner and outer blanks, five names, ten names
NameTexts ==
    { <<>>,
      <<" ", "\t">>,
      <<"\n">>,
      <<";", " ", ",", "\n", " ">>,
      <<"A">>,
      <<" ", "A", " ", "B", " ">>,
      <<",", "A", ",", ",", "B", ";">>,
      <<"A", "\n", "B", ";", "C", ",", " ", "D", " ", "\n", "\n", "E">>,
      <<"A", ",", "B", ",", "C", ",", "D", ",", "E", ",", "F", ",", "G", ",",
        "H", ",", " ", "\t", ";", "I", " ", ",", "J">> }

\* the results of k calls of uid(): all the same string, or alternating
CoreUids(k) ==
    { [i \in 1..k |-> "a"], [i \in 1..k |-> IF i % 2 = 1 THEN "b" ELSE "a"] }

\* the boards the store may hold from an earlier session
CoreBoards == { DEFAULT_BOARD, StoredBoard, FileBoard }

\* the state once the load effect, its render and the auto-save have run
InitCore ==
    /\ board \in CoreBoards
    /\ pasteText = <<>>
    /\ selectedColor = 1
    /\ storeOK = TRUE
    /\ store = stringify(board, 0)
    /\ effects = <<>>
    /\ dirty = FALSE
    /\ crashed = FALSE
    /\ dragging = {}
    /\ reads = <<>>
    /\ timers = 0
    /\ download = NoText
    /\ exported = DEFAULT_BOARD
    /\ ops = 0
    /\ last = [Ev("mount") EXCEPT !.text = store]

\* line 322: setBoard((b) => ({ ...b, items: b.items.filter(...) })) run
\* for id, whether or not an item of the Board has that id
deleteUpdater(id) ==
    /\ Ready
    /\ Handled([Ev("deleteUpdater") EXCEPT !.id = id])
    /\ Commit(deleteItem(board, id))
    /\ UNCHANGED <<pasteText, selectedColor, store, storeOK, dragging, reads,
                   timers, download, exported>>

\* lines 317-320: setBoard((b) => ({ ...b, items: b.items.map(...) })) run
\* for id and text, whether or not an item of the Board has that id
changeTextUpdater(id, text) ==
    /\ Ready
    /\ Handled([Ev("changeTextUpdater") EXCEPT !.id = id, !.edit = text])
    /\ Commit(changeText(board, id, text))
    /\ UNCHANGED <<pasteText, selectedColor, store, storeOK, dragging, reads,
                   timers, download, exported>>

NextCore ==
    \/ AutoSave
    \/ ops < MaxCoreOps /\ \E text \in NameTexts : setPasteText(text)
    \/ ops < MaxCoreOps /\ \E i \in 0..(Len(COLORS) - 1) : setSelectedColor(i)
    \/ ops < MaxCoreOps /\ \E ids \in CoreUids(Len(parseNames(pasteText))) : addMagnets(ids)
    \/ ops < MaxCoreOps /\ \E id \in Ids, jitter \in Jitters : addLabel(id, jitter)
    \/ ops < MaxCoreOps /\ \E id \in Ids : deleteUpdater(id)
    \/ ops < MaxCoreOps /\ \E id \in Ids, text \in EditTexts : changeTextUpdater(id, text)

SpecCore == InitCore /\ [][NextCore]_vars

---------------------------------------------------------------------------
(* Properties *)

\* a well-formed Board: an items sequence and a settings record with
\* exactly the booleans grid, snap and locked
IsBoard(b) ==
    /\ b.t = "board"
    /\ b.items.t = "arr"
    /\ b.settings.t = "obj"
    /\ DOMAIN b.settings.o = {"grid", "snap", "locked"}

\* the (x, y) of every item, in list order
Positions(b) ==
    IF Renderable(b)
    THEN [i \in 1..Len(b.items.a) |-> <<b.items.a[i].x, b.items.a[i].y>>]
    ELSE <<>>

\* this step is the handling of event op
Step(op) == ops' = ops + 1 /\ last'.op = op

\* the mount effects and the render they cause have all run
Settled == effects = <<>> /\ ~dirty

\* C1: while settings.locked is true no drag-end changes the x or y of any
\* item, also when the drag started before the board was locked.
C1_LockedDragEndMovesNothing ==
    [][(Locked(board) /\ Step("onDragEnd")) => Positions(board') = Positions(board)]_vars

\* C2: the position a drag-end commits for an existing item lies in
\* [0, rect.width - 120] x [0, rect.height - 40], for every pointer
\* coordinate and every board rectangle.
C2_CommittedPositionClamped ==
    (last.op = "onDragEnd" /\ Renderable(board)) =>
        \A i \in 1..Len(board.items.a) :
            board.items.a[i].id = last.id =>
                /\ 0 <= board.items.a[i].x
                /\ board.items.a[i].x <= last.rect.width - 120
                /\ 0 <= board.items.a[i].y
                /\ board.items.a[i].y <= last.rect.height - 40

\* C3: with settings.snap true, the x and the y a drag-end commits are
\* multiples of 24, also when the placement is clamped to an edge.
C3_SnappedPositionOnGrid ==
    (last.op = "onDragEnd" /\ Renderable(board) /\ Flag(board.settings, "snap")) =>
        \A i \in 1..Len(board.items.a) :
            board.items.a[i].id = last.id =>
                /\ board.items.a[i].x % 24 = 0
                /\ board.items.a[i].y % 24 = 0

\* the document has no top-level member key
LacksKey(d, key) == d.t # "obj" \/ Lookup(d.m, key).t = "undefined"

\* C4: an import whose text is not JSON, or is JSON without the top-level
\* items key or without the top-level settings key, shows an error and
\* leaves the Board as it was.
C4_RejectedImportKeepsBoard ==
    [][(/\ Step("importDone")
        /\ \/ ~Parseable(last'.text)
           \/ LacksKey(last'.text.doc, "items")
           \/ LacksKey(last'.text.doc, "settings"))
       => (board' = board /\ last'.alert # "")]_vars

\* C4's case: "{}" was imported into a board that holds items and rejected
C4_Witness ==
    /\ last.op = "importDone"
    /\ last.text = EmptyObjectText
    /\ last.alert = "Invalid file format."
    /\ Renderable(board) /\ Len(board.items.a) > 0

\* C5: the in-memory Board is always a well-formed Board; a stored or
\* imported document that is null, "{}" or has non-sequence items never
\* becomes the Board.
C5_BoardAlwaysWellFormed == IsBoard(board)

\* C6: exporting a Board b and importing the exported text (while the
\* component is mounted) is accepted and yields a Board equal to b.
C6_ExportImportRoundTrip ==
    (/\ last.op = "importDone"
     /\ download # NoText /\ last.text = download
     /\ IsBoard(exported)
     /\ ~crashed)
    => (last.alert = "" /\ board = exported)

\* C6's case: a board with items was exported, the Board was then changed,
\* and the import of the exported text brought it back
C6_Witness ==
    /\ last.op = "importDone"
    /\ download # NoText /\ last.text = download
    /\ IsBoard(exported) /\ Len(exported.items.a) = 2
    /\ exported # StoredBoard
    /\ board = exported
    /\ ops = 4

\* C7: with the store available, once the auto-save effect of the latest
\* Board mutation has run, the store holds the serialization of the Board.
C7_StoreMirrorsBoard ==
    (storeOK /\ Settled /\ ~crashed) => store = stringify(board, 0)

\* C7's case: the Board was changed by a handler and the store has followed
C7_Witness ==
    /\ storeOK /\ Settled /\ ~crashed
    /\ last.op = "onDragEnd"
    /\ board # StoredBoard /\ board # DEFAULT_BOARD
    /\ store = stringify(board, 0)

\* C8: at startup, once the load and auto-save effects have run, the Board
\* is the stored document when the key held a parseable text and the empty
\* default otherwise, and a stored Board is still in the store.
C8_StartupRestore ==
    (last.op = "mount" /\ Settled) =>
        /\ board = IF Parseable(last.text) THEN parse(last.text) ELSE DEFAULT_BOARD
        /\ (Parseable(last.text) /\ ~crashed) =>
              (Parseable(store) /\ parse(store) = parse(last.text))

\* C8's case: the stored board was restored and saved again
C8_Witness ==
    /\ last.op = "mount" /\ Settled
    /\ last.text = stringify(StoredBoard, 0)
    /\ board = StoredBoard
    /\ store = stringify(StoredBoard, 0)

\* C9: whenever the deferred print callback fires, settings.locked is true.
C9_PrintFiresLocked == last.op = "print" => last.locked

\* C10: a drag-end for id changes the position of the items with that id
\* and nothing else: the other items, the order, the dragged item's other
\* fields and the settings stay, and an id that is not in the Board changes
\* no item.  Each of two concurrent drags so commits its own position.
C10_DragEndTouchesOwnItemOnly ==
    [][(Step("onDragEnd") /\ ~crashed) =>
        /\ Renderable(board')
        /\ board'.settings = board.settings
        /\ Len(board'.items.a) = Len(board.items.a)
        /\ \A i \in 1..Len(board.items.a) :
              LET it == board.items.a[i]
                  x == last'.point.x - last'.rect.left
                  y == last'.point.y - last'.rect.top
                  snap == Flag(board.settings, "snap")
              IN  IF it.id = last'.id
                  THEN board'.items.a[i] =
                          [it EXCEPT !.x = placeX(it, x, last'.rect, snap),
                                     !.y = placeY(it, y, last'.rect, snap)]
                  ELSE board'.items.a[i] = it]_vars

\* C10's case: two drags were in progress together and both have ended,
\* each item at the position of its own release
C10_Witness ==
    /\ last.op = "onDragEnd" /\ ops = 4 /\ dragging = {}
    /\ Renderable(board) /\ Len(board.items.a) = 2
    /\ board.items.a[1].id = "a" /\ board.items.a[2].id = "b"
    /\ <<board.items.a[1].x, board.items.a[1].y>> = <<0, 0>>
    /\ <<board.items.a[2].x, board.items.a[2].y>> = <<880, 522>>

\* C11: in every reachable Board no two items have the same id, whatever
\* sequence of bulk creation, label creation, delete, clear, startup load
\* and import produced it.
C11_ItemIdsUnique ==
    Renderable(board) =>
        \A i, j \in 1..Len(board.items.a) :
            board.items.a[i].id = board.items.a[j].id => i = j

\* the positions in text where a piece starts: a character that is no
\* delimiter, at the start of the text or after a delimiter
PieceStarts(text) ==
    {i \in 1..Len(text) : text[i] \notin {"\n", ",", ";"}
                          /\ (i = 1 \/ text[i - 1] \in {"\n", ",", ";"})}

\* the position where the piece starting at s ends
PieceEnd(text, s) ==
    CHOOSE e \in s..Len(text) :
        /\ \A k \in s..e : text[k] \notin {"\n", ",", ";"}
        /\ (e = Len(text) \/ text[e + 1] \in {"\n", ",", ";"})

\* the positions of the characters of the piece at s that are not blank
Inked(text, s) == {k \in s..PieceEnd(text, s) : text[k] \notin {" ", "\t", "\n"}}

\* the names of a pasted text, read off its positions: the non-blank
\* pieces, each from its first to its last non-blank character, in order
NamesOf(text) ==
    LET kept == {s \in PieceStarts(text) : Inked(text, s) # {}}
        nth(n) == CHOOSE s \in kept : Cardinality({t \in kept : t <= s}) = n
        lo(s) == CHOOSE k \in Inked(text, s) : \A j \in Inked(text, s) : k <= j
        hi(s) == CHOOSE k \in Inked(text, s) : \A j \in Inked(text, s) : j <= k
    IN  [n \in 1..Cardinality(kept) |-> Join(SubSeq(text, lo(nth(n)), hi(nth(n))))]

\* C12: Add Magnets splits the pasted text on runs of newline, comma and
\* semicolon, trims the pieces and drops the empty ones; it appends one
\* magnet per name, in order, the i-th (from 0) with that name as text,
\* x = 24 + (i mod 4) * 140, y = 24 + floor(i / 4) * 60 and the selected
\* color, and leaves the existing items and the settings as they were.  A
\* text with no name leaves the item list unchanged.
C12_AddMagnetsLayout ==
    [][Step("addMagnets") =>
        LET names == NamesOf(pasteText)
            old == board.items.a
        IN  /\ Renderable(board')
            /\ board'.settings = board.settings
            /\ Len(board'.items.a) = Len(old) + Len(names)
            /\ \A i \in 1..Len(old) : board'.items.a[i] = old[i]
            /\ \A i \in 0..(Len(names) - 1) :
                  LET it == board'.items.a[Len(old) + i + 1]
                  IN  /\ it.type = "magnet"
                      /\ it.text = names[i + 1]
                      /\ it.x = 24 + (i % 4) * 140
                      /\ it.y = 24 + (i \div 4) * 60
                      /\ it.color = selectedColor]_vars

\* C12's case: ten names were added after the two stored items; the tenth
\* magnet is the second of the third row
C12_Witness ==
    /\ last.op = "addMagnets"
    /\ Renderable(board) /\ Len(board.items.a) = 12
    /\ board.items.a[1] = StoredBoard.items.a[1]
    /\ board.items.a[12].text = "J"
    /\ board.items.a[12].x = 164 /\ board.items.a[12].y = 144
    /\ board.items.a[11].text = "I"
    /\ board.items.a[12].color = 7

\* C14: the delete updater and the text updater run for an id that no item
\* of the Board has leave the item list as it was, and a delete run a second
\* time for the same id leaves the Board as the first delete left it.
C14_AbsentIdIgnored ==
    [][/\ (Step("deleteUpdater") /\ ~HasId(board, last'.id))
            => board'.items = board.items
       /\ (Step("changeTextUpdater") /\ ~HasId(board, last'.id))
            => board'.items = board.items
       /\ (Step("deleteUpdater") /\ last.op = "deleteUpdater" /\ last.id = last'.id)
            => board' = board]_vars

\* C14's case: b was deleted from the stored board, the save ran, and b was
\* deleted again: the label a is still the one item
C14_Witness ==
    /\ last.op = "deleteUpdater" /\ last.id = "b" /\ ops = 2
    /\ board.items.a = <<StoredBoard.items.a[1]>>
    /\ store = stringify(board, 0)
    /\ effects = <<SaveJob(board)>>

\* C19: an item made by Add Magnets or Add Label has a color in 0..7 (the
\* selected swatch, 3 for a label), and every item of the Board is painted
\* with a palette entry: the one at its color when that is in 0..7, entry 0
\* otherwise.
C19_ColorIndexFallback ==
    /\ [](Renderable(board) =>
            \A i \in 1..Len(board.items.a) :
                LET c == board.items.a[i].color
                IN  /\ \E k \in 1..8 : MagnetColor(c) = COLORS[k]
                    /\ MagnetColor(c) = IF c \in 0..7 THEN COLORS[c + 1] ELSE "Slate")
    /\ [][(Step("addMagnets") \/ Step("addLabel")) =>
            \A i \in (Len(board.items.a) + 1)..Len(board'.items.a) :
                LET it == board'.items.a[i]
                IN  /\ it.color \in 0..7
                    /\ it.color = IF it.type = "label" THEN 3 ELSE selectedColor]_vars

\* C19's case: the board holds the imported magnet of color 9 and a magnet
\* made with the last swatch
C19_Witness ==
    /\ last.op = "addMagnets"
    /\ Renderable(board) /\ Len(board.items.a) = 3
    /\ board.items.a[2].color = 9 /\ MagnetColor(board.items.a[2].color) = "Slate"
    /\ board.items.a[3].color = 7 /\ MagnetColor(board.items.a[3].color) = "Pink"

\* C13: a Clear whose confirmation is denied leaves the Board as it was;
\* a Clear whose confirmation is accepted leaves the Board with no items
\* and grid = true, snap = true, locked = false, whatever ran before.
C13_ClearResetsOrKeeps ==
    [][Step("clearBoard") =>
        IF last'.alert = "ok"
        THEN board' = [t |-> "board",
                       items |-> [t |-> "arr", a |-> <<>>],
                       settings |-> [t |-> "obj",
                                     o |-> [grid |-> TRUE, snap |-> TRUE,
                                            locked |-> FALSE]]]
        ELSE board' = board]_vars

\* C13's case: the Board held items and changed settings (the store still
\* holds them, its save has not run) and an accepted Clear emptied it
C13_Witness ==
    /\ last.op = "clearBoard" /\ last.alert = "ok"
    /\ board = DEFAULT_BOARD
    /\ effects = <<SaveJob(DEFAULT_BOARD)>>
    /\ Parseable(store) /\ IsBoard(parse(store))
    /\ Len(parse(store).items.a) = 2
    /\ parse(store).settings.o = [grid |-> FALSE, snap |-> TRUE, locked |-> TRUE]

\* the Board a handled event e leaves, computed from the in-memory state and
\* the inputs of e alone
BoardAfter(e) ==
    CASE e.op = "addMagnets" ->
            IF Trim(pasteText) = <<>> THEN board
            ELSE WithItems(board, board.items.a \o
                     newMagnets(parseNames(pasteText), e.ids, selectedColor))
      [] e.op = "addLabel" ->
            WithItems(board, Append(board.items.a,
                Item(e.id, "label", "Team A", 24 + e.jitter.x, 24 + e.jitter.y, 3)))
      [] e.op = "clearBoard" -> IF e.alert = "ok" THEN DEFAULT_BOARD ELSE board
      [] e.op = "onDragEnd" ->
            IF crashed THEN board ELSE dragBoard(board, e.id, e.point, e.rect)
      [] e.op = "importDone" ->
            IF e.alert = "" /\ ~crashed THEN parse(e.text) ELSE board
      [] e.op = "toggle" -> toggleBoard(board, e.key)
      [] e.op = "printBoard" ->
            IF Locked(board) THEN board ELSE toggleBoard(board, "locked")
      [] e.op = "onChangeText" -> changeText(board, e.id, e.edit)
      [] e.op = "onDelete" -> deleteItem(board, e.id)
      [] OTHER -> board

\* C15: with the store failing on every read and write nothing fails:
\* startup leaves the empty default Board, as it does with a working store
\* that is empty; the effects change nothing in memory; and in every run,
\* with or without the store, each handled event leaves the Board that the
\* in-memory state and the event's inputs determine.
C15_StoreFailureInvisible ==
    /\ []((last.op = "mount" /\ (~storeOK \/ last.text = NoText))
            => (board = DEFAULT_BOARD /\ ~crashed))
    /\ [][(ops' = ops /\ ~storeOK) => UNCHANGED <<board, crashed, store>>]_vars
    /\ [][(ops' = ops + 1) => board' = BoardAfter(last')]_vars

\* C15's case: a session with a failing store has added items and moved one
C15_Witness ==
    /\ ~storeOK /\ store = NoText /\ Settled /\ ~crashed
    /\ last.op = "onDragEnd" /\ ops = 4
    /\ Len(board.items.a) = 2
    /\ board.items.a[1].x = 880

\* C16: starting an import changes nothing in the Board, and the completion
\* of a read of a well-formed Board document makes that document the Board,
\* whichever import was started first and whatever completed before it.
C16_LastCompletedReadWins ==
    [][/\ Step("handleImport") => board' = board
       /\ (Step("importDone") /\ Parseable(last'.text) /\ IsBoard(parse(last'.text)))
            => board' = parse(last'.text)]_vars

\* C17: a drag-end on a board rectangle narrower than 120 or lower than 40
\* changes the position of no item.
C17_DegenerateRectNoOp ==
    [][(Step("onDragEnd") /\ (last'.rect.width < 120 \/ last'.rect.height < 40))
        => Positions(board') = Positions(board)]_vars

\* C18: a label of the Board is still in the Board, with its id and type,
\* after every step that is neither an accepted Clear nor an accepted import.
C18_LabelsStay ==
    [][(/\ Renderable(board)
        /\ ~(Step("clearBoard") /\ last'.alert = "ok")
        /\ ~(Step("importDone") /\ last'.alert = ""))
       => \A i \in 1..Len(board.items.a) :
             board.items.a[i].type = "label" =>
                /\ Renderable(board')
                /\ \E j \in 1..Len(board'.items.a) :
                      /\ board'.items.a[j].id = board.items.a[i].id
                      /\ board'.items.a[j].type = "label"]_vars

====
